---------------------------- MODULE Spec2Model ----------------------------
(***************************************************************************)
(* Model of crawler.py: the crawl of one host (main -> crawl_peo): robots  *)
(* loading, sitemap seeding, and the frontier loop with its per-URL checks,*)
(* page classification, persistence and politeness sleeps.                 *)
(*                                                                         *)
(* A URL string is modelled by the components urlparse splits it into:     *)
(*   netloc   : the host, as written (case is kept)                        *)
(*   path     : the path as a sequence of tokens; "/" is a token and every *)
(*              other token is a slash-free piece of the path;             *)
(*              <<>> is the empty path, <<"/">> the root path              *)
(*   query    : 0 for no query, k > 0 for the query string "page=k"        *)
(*   fragment : "" for no fragment                                         *)
(* The scheme is "https" throughout and is left out.                       *)
(***************************************************************************)
EXTENDS Integers, Sequences, FiniteSets, TLC

VARIABLES
    pc,          \* position in main()/crawl_peo()
    requested,   \* the --max-pages value as given on the command line
    max_pages,   \* args.max_pages, then crawl_peo's max_pages
    start_url,   \* args.start
    use_sitemap, \* not args.no_sitemap
    robotsFetch, \* what happened to the robots.txt request (history)
    rp,          \* the RobotFileParser returned by load_robots
    queue,       \* deque of URLs
    seen,        \* set of URLs
    count,       \* pages saved
    pages,       \* URLs a page file was written for (save_txt)
    manifest,    \* records appended to manifest.jsonl, in order
    last,        \* the latest loop iteration: its URL, response and outcome (history)
    log,         \* every request, sleep, enqueue, dequeue and save so far (history)
    args,        \* the arguments of a function applied on its own
    rets         \* what that function returned

vars == <<pc, requested, max_pages, start_url, use_sitemap, robotsFetch, rp,
          queue, seen, count, pages, manifest, last, log, args, rets>>

-----------------------------------------------------------------------------
(* Bounds of the model *)

\* command-line caps tried: -1 .. MaxSmallCap, and one value above HardCap
MaxSmallCap == 2
\* the paginated listing /list?page=1 .. /list?page=ChainLen, each page linking the next
ChainLen == 22
\* depth at which the interpreter refuses one more nested parse_sitemap call
RecursionLimit == 3

\* longest path, in tokens, of the URLs normalize_url is applied to on its own
MaxPathLen == 4
\* most <loc>s of a child sitemap when the seeding is applied on its own
MaxLeaves == 2

\* main(): "Hard cap for demo: never exceed 20"
HardCap == 20

-----------------------------------------------------------------------------
(* URLs *)

U(n, p, q, f) == [netloc |-> n, path |-> p, query |-> q, fragment |-> f]

NoUrl      == U("", <<>>, 0, "")
Root       == U("peo.gov.au", <<"/">>, 0, "")
RootBare   == U("peo.gov.au", <<>>, 0, "")
PageA      == U("peo.gov.au", <<"/", "a">>, 0, "")
PageASlash == U("peo.gov.au", <<"/", "a", "/">>, 0, "")
PageAFrag  == U("peo.gov.au", <<"/", "a">>, 0, "top")
PageB      == U("PEO.GOV.AU", <<"/", "b">>, 0, "")
Priv       == U("peo.gov.au", <<"/", "private", "/", "x">>, 0, "")
PrivSlash  == U("peo.gov.au", <<"/", "private", "/", "x", "/">>, 0, "")
PrivDir    == U("peo.gov.au", <<"/", "private", "/">>, 0, "")
Pdf        == U("peo.gov.au", <<"/", "doc.PDF">>, 0, "")
Ext        == U("other.org", <<"/">>, 0, "")
ListPage(k) == U("peo.gov.au", <<"/", "list">>, k, "")

SmDefault  == U("peo.gov.au", <<"/", "sitemap.xml">>, 0, "")
Sm1        == U("peo.gov.au", <<"/", "sm1.xml">>, 0, "")
Sm2        == U("peo.gov.au", <<"/", "sm2.xml">>, 0, "")

\* str.lower() on the tokens the model uses
Lower(t) ==
    CASE t = "PEO.GOV.AU" -> "peo.gov.au"
      [] t = "doc.PDF" -> "doc.pdf"
      [] t = "TEXT/HTML" -> "text/html"
      [] OTHER -> t

\* the extension a (lower-case) path token ends with, "" if none
Suffix(t) ==
    CASE t = "doc.pdf" -> ".pdf"
      [] t = "sitemap.xml" -> ".xml"
      [] t = "sm1.xml" -> ".xml"
      [] t = "sm2.xml" -> ".xml"
      [] OTHER -> ""

\* normalize_url: drop the fragment, empty path -> "/", strip one trailing
\* slash of a non-root path
normalize_url(u) ==
    IF u = NoUrl THEN u
    ELSE LET path == IF u.path = <<>> THEN <<"/">> ELSE u.path
             stripped == IF path[Len(path)] = "/" /\ path # <<"/">>
                         THEN SubSeq(path, 1, Len(path) - 1)
                         ELSE path
         IN  [u EXCEPT !.fragment = "", !.path = stripped]

\* same_domain: netlocs equal, case-insensitively
same_domain(u, root) == Lower(u.netloc) = Lower(root.netloc)

EXCLUDED_EXTENSIONS ==
    {".jpg", ".jpeg", ".png", ".gif", ".svg", ".webp", ".ico", ".css", ".js",
     ".map", ".pdf", ".zip", ".gz", ".rar", ".7z", ".mp4", ".webm", ".mp3",
     ".wav", ".avi", ".ttf", ".woff", ".woff2", ".eot", ".xml"}

\* looks_like_binary: the lower-cased path ends with an excluded extension
looks_like_binary(u) ==
    /\ u.path # <<>>
    /\ Suffix(Lower(u.path[Len(u.path)])) \in EXCLUDED_EXTENSIONS

\* is_html_response: the lower-cased Content-Type header (a sequence of
\* pieces; <<>> when the header is missing) contains an HTML media type
is_html_response(resp) ==
    \E i \in 1..Len(resp.ctype) :
        Lower(resp.ctype[i]) \in {"text/html", "application/xhtml+xml"}

-----------------------------------------------------------------------------
(* History: the operations of a run, in order *)

Ev(e, u) == [ev |-> e, url |-> u]

\* the outbound requests: robots.txt, a sitemap, a page GET
IsRequest(e) == e.ev \in {"robots", "sitemap", "get"}

RECURSIVE MapEnq(_)
MapEnq(us) ==
    IF us = <<>> THEN <<>> ELSE <<Ev("enq", Head(us))>> \o MapEnq(Tail(us))

RECURSIVE MapFetched(_)
MapFetched(us) ==
    IF us = <<>> THEN <<>> ELSE <<Ev("sitemap", Head(us))>> \o MapFetched(Tail(us))

-----------------------------------------------------------------------------
(* Robots gate: urllib.robotparser.RobotFileParser as load_robots uses it *)

IsPrefix(p, s) == Len(p) <= Len(s) /\ SubSeq(s, 1, Len(p)) = p

PrivPrefix == <<"/", "private", "/">>

\* what the robots.txt request can come to: a 200 body that parses (the
\* Disallow prefixes that apply to the crawler's agent, the Sitemap lines),
\* an HTTP error status, a connection error, a body that does not decode
RobotsOutcomes ==
    {[kind |-> "ok", status |-> 200, disallow |-> {PrivPrefix}, sitemaps |-> <<>>],
     [kind |-> "ok", status |-> 200, disallow |-> {PrivPrefix}, sitemaps |-> <<Sm1, Sm2>>],
     [kind |-> "http", status |-> 403, disallow |-> {}, sitemaps |-> <<>>],
     [kind |-> "http", status |-> 404, disallow |-> {}, sitemaps |-> <<>>],
     [kind |-> "http", status |-> 503, disallow |-> {}, sitemaps |-> <<>>],
     [kind |-> "urlerror", status |-> 0, disallow |-> {}, sitemaps |-> <<>>],
     [kind |-> "baddecode", status |-> 200, disallow |-> {}, sitemaps |-> <<>>]}

NoRobotsFetch == [kind |-> "none", status |-> 0, disallow |-> {}, sitemaps |-> <<>>]

\* RobotFileParser(): nothing read yet
NewRobotFileParser ==
    [disallow_all |-> FALSE, allow_all |-> FALSE, last_checked |-> FALSE,
     disallow |-> {}, sitemaps |-> <<>>]

\* load_robots: rp.read() inside try/except-pass. read() sets disallow_all on
\* 401/403, allow_all on any other 4xx, parses a 200 body (parse() stamps
\* last_checked), and on every other outcome leaves the parser as constructed
\* (a connection or decode error is raised, and swallowed by load_robots)
load_robots(o) ==
    CASE o.kind = "http" /\ o.status \in {401, 403} ->
             [NewRobotFileParser EXCEPT !.disallow_all = TRUE]
      [] o.kind = "http" /\ o.status \notin {401, 403}
                         /\ o.status >= 400 /\ o.status < 500 ->
             [NewRobotFileParser EXCEPT !.allow_all = TRUE]
      [] o.kind = "ok" ->
             [NewRobotFileParser EXCEPT !.last_checked = TRUE,
                                        !.disallow = o.disallow,
                                        !.sitemaps = o.sitemaps]
      [] OTHER -> NewRobotFileParser

\* can_fetch that answers from last_checked alone and never reads the rules
can_fetch_no_rules(r, u) ==
    IF r.disallow_all THEN FALSE
    ELSE IF r.allow_all THEN TRUE
    ELSE r.last_checked

\* rp.can_fetch(agent, url)
can_fetch(r, u) ==
    IF r.disallow_all THEN FALSE
    ELSE IF r.allow_all THEN TRUE
    ELSE IF ~r.last_checked THEN FALSE
    ELSE LET path == IF u.path = <<>> THEN <<"/">> ELSE u.path
         IN  \A p \in r.disallow : ~IsPrefix(p, path)

\* discover_sitemaps: the sitemaps robots.txt declares, else /sitemap.xml
discover_sitemaps(r, start) ==
    IF r.sitemaps # <<>> THEN r.sitemaps
    ELSE <<U(start.netloc, <<"/", "sitemap.xml">>, 0, "")>>

-----------------------------------------------------------------------------
(* Sitemap seeder *)

FailDoc == [kind |-> "fail", locs |-> <<>>]
UrlSet(locs) == [kind |-> "urlset", locs |-> locs]
SitemapIndex(locs) == [kind |-> "sitemapindex", locs |-> locs]

SitemapUrls == {SmDefault, Sm1, Sm2}

\* the sitemap documents a site can serve: for each sitemap URL either no
\* usable document (non-200, non-XML, unparseable, transport error), a
\* <urlset> or a <sitemapindex>
SitemapWebs ==
    {[s \in SitemapUrls |-> FailDoc],
     [s \in SitemapUrls |->
        IF s = SmDefault
        THEN UrlSet(<<Root, PageASlash, PageAFrag, Pdf, Ext>>) ELSE FailDoc],
     [s \in SitemapUrls |->
        CASE s = SmDefault -> SitemapIndex(<<Sm1, Sm2>>)
          [] s = Sm1 -> UrlSet(<<Root, PageA>>)
          [] s = Sm2 -> UrlSet(<<Priv, PageB>>)],
     [s \in SitemapUrls |->
        CASE s = SmDefault -> SitemapIndex(<<SmDefault, Sm1>>)
          [] s = Sm1 -> SitemapIndex(<<Sm2, Sm1>>)
          [] s = Sm2 -> UrlSet(<<PageA, NoUrl>>)],
     [s \in SitemapUrls |->
        IF s = Sm2 THEN UrlSet(<<PageA>>) ELSE UrlSet(<<Pdf, Ext>>)],
     [s \in SitemapUrls |-> UrlSet(<<Ext>>)],
     [s \in SitemapUrls |->
        CASE s = SmDefault -> SitemapIndex(<<Sm1>>)
          [] s = Sm1 -> SitemapIndex(<<SmDefault>>)
          [] s = Sm2 -> FailDoc]}

DocAt(web, u) == IF u \in DOMAIN web THEN web[u] ELSE FailDoc

NonEmpty(locs) == SelectSeq(locs, LAMBDA l : l # NoUrl)

\* parse_sitemap: one GET, then the <loc>s of a urlset, or the concatenated
\* results of parsing every <loc> of a sitemapindex; a call nested deeper than
\* the interpreter allows raises inside its own try and returns [].
\* Returns the URLs and, in order, the sitemap URLs requested.
RECURSIVE parse_sitemap(_, _, _), parse_locs(_, _, _)

\* parse_sitemap under an interpreter that allows one more nested call
parse_sitemap_deeper(web, url, depth) ==
    IF depth > RecursionLimit + 1 THEN [urls |-> <<>>, fetched |-> <<>>]
    ELSE LET doc == DocAt(web, url) IN
         CASE doc.kind = "sitemapindex" ->
                  LET r == parse_locs(web, NonEmpty(doc.locs), depth + 1)
                  IN  [urls |-> r.urls, fetched |-> <<url>> \o r.fetched]
           [] doc.kind = "urlset" ->
                  [urls |-> NonEmpty(doc.locs), fetched |-> <<url>>]
           [] OTHER -> [urls |-> <<>>, fetched |-> <<url>>]

parse_sitemap(web, url, depth) ==
    IF depth > RecursionLimit THEN [urls |-> <<>>, fetched |-> <<>>]
    ELSE LET doc == DocAt(web, url) IN
         CASE doc.kind = "sitemapindex" ->
                  LET r == parse_locs(web, NonEmpty(doc.locs), depth + 1)
                  IN  [urls |-> r.urls, fetched |-> <<url>> \o r.fetched]
           [] doc.kind = "urlset" ->
                  [urls |-> NonEmpty(doc.locs), fetched |-> <<url>>]
           [] OTHER -> [urls |-> <<>>, fetched |-> <<url>>]

\* the loop over the <loc>s of an index, without its later passes
parse_locs_first(web, locs, depth) ==
    IF locs = <<>> THEN [urls |-> <<>>, fetched |-> <<>>]
    ELSE parse_sitemap(web, Head(locs), depth)

parse_locs(web, locs, depth) ==
    IF locs = <<>> THEN [urls |-> <<>>, fetched |-> <<>>]
    ELSE LET h == parse_sitemap(web, Head(locs), depth)
             t == parse_locs(web, Tail(locs), depth)
         IN  [urls |-> h.urls \o t.urls, fetched |-> h.fetched \o t.fetched]

RECURSIVE MapNormalize(_)
MapNormalize(us) ==
    IF us = <<>> THEN <<>>
    ELSE <<normalize_url(Head(us))>> \o MapNormalize(Tail(us))

\* crawl_peo, "for sm in sitemaps": what the loop appends to the queue,
\* whether it seeded, and its requests and appends in order
RECURSIVE SeedFromSitemaps(_, _, _)
SeedFromSitemaps(web, sitemaps, start) ==
    IF sitemaps = <<>> THEN [queue |-> <<>>, seeded |-> FALSE, events |-> <<>>]
    ELSE LET r    == parse_sitemap(web, Head(sitemaps), 1)
             urls == SelectSeq(r.urls, LAMBDA u : same_domain(u, start))
             kept == SelectSeq(MapNormalize(urls), LAMBDA n : ~looks_like_binary(n))
             rest == SeedFromSitemaps(web, Tail(sitemaps), start)
         IN  [queue  |-> kept \o rest.queue,
              seeded |-> urls # <<>> \/ rest.seeded,
              events |-> MapFetched(r.fetched) \o MapEnq(kept) \o rest.events]

\* crawl_peo, "Seed queue": the queue the crawl loop starts with
SeedQueue(web) ==
    IF use_sitemap
    THEN LET r == SeedFromSitemaps(web, discover_sitemaps(rp, start_url), start_url)
         IN  IF ~r.seeded
             THEN [queue  |-> r.queue \o <<normalize_url(start_url)>>,
                   events |-> r.events \o <<Ev("enq", normalize_url(start_url))>>]
             ELSE [queue |-> r.queue, events |-> r.events]
    ELSE [queue  |-> <<normalize_url(start_url)>>,
          events |-> <<Ev("enq", normalize_url(start_url))>>]

-----------------------------------------------------------------------------
(* The site's answers to page GETs *)

Exc == [kind |-> "exception", status |-> 0, ctype |-> <<>>, links |-> <<>>]
Resp(st, ct, ls) == [kind |-> "response", status |-> st, ctype |-> ct, links |-> ls]
NoResponse == [kind |-> "none", status |-> 0, ctype |-> <<>>, links |-> <<>>]

HtmlType  == <<"text/html", "; charset=utf-8">>
UpperHtml == <<"TEXT/HTML">>
XhtmlType == <<"application/xhtml+xml">>
PdfType   == <<"application/pdf">>

\* the <a href> targets a page of the site can carry, already resolved by
\* urljoin (extract_links)
PageLinks ==
    {<<>>,
     <<PageA>>,
     <<PageASlash, PageAFrag>>,
     <<RootBare, PageA, Root>>,
     <<Priv, Pdf, Ext>>,
     <<PrivSlash, PrivDir, PageA>>,
     <<PageB, Ext>>}

\* session.get(url, timeout=12): an exception (transport error, retries
\* exhausted) or a response. A page of the listing /list?page=k links page
\* k+1; any other page carries any of PageLinks. In the crawl of one fixed
\* site (args.fn = "site") a URL always gets that site's response.
Responses(u) ==
    IF args.fn = "site" THEN {args.web[u]}
    ELSE IF u.path = <<"/", "list">>
    THEN {Exc, Resp(404, HtmlType, <<ListPage(u.query + 1)>>),
          Resp(200, HtmlType,
               IF u.query < ChainLen THEN <<ListPage(u.query + 1)>> ELSE <<>>)}
    ELSE {Exc,
          Resp(404, HtmlType, <<PageA, Priv>>),
          Resp(200, PdfType, <<PageA, Priv>>),
          Resp(200, <<>>, <<>>),
          Resp(200, UpperHtml, <<>>),
          Resp(200, XhtmlType, <<PageA>>)}
         \cup {Resp(200, HtmlType, ls) : ls \in PageLinks}

-----------------------------------------------------------------------------
(* crawl_peo: one pass of the while loop *)

\* the checks before the GET with the extension check ahead of the robots check
GateExtensionFirst(url) ==
    IF url \in seen THEN "SkippedDuplicate"
    ELSE IF ~same_domain(url, start_url) THEN "SkippedOutOfScope"
    ELSE IF looks_like_binary(url) THEN "SkippedBinary"
    ELSE IF ~can_fetch(rp, url) THEN "SkippedRobotsDenied"
    ELSE "fetch"

\* the checks before the GET without the already-seen check
GateNoSeen(url) ==
    IF ~same_domain(url, start_url) THEN "SkippedOutOfScope"
    ELSE IF ~can_fetch(rp, url) THEN "SkippedRobotsDenied"
    ELSE IF looks_like_binary(url) THEN "SkippedBinary"
    ELSE "fetch"

\* the checks before the GET, in the code's order; "fetch" when all pass
Gate(url) ==
    IF url \in seen THEN "SkippedDuplicate"
    ELSE IF ~same_domain(url, start_url) THEN "SkippedOutOfScope"
    ELSE IF ~can_fetch(rp, url) THEN "SkippedRobotsDenied"
    ELSE IF looks_like_binary(url) THEN "SkippedBinary"
    ELSE "fetch"

\* the checks on what the GET gave without the status check
ClassifyNoStatus(r) ==
    IF r.kind = "exception" THEN "SkippedTransportError"
    ELSE IF ~is_html_response(r) THEN "SkippedNonHTML"
    ELSE "Saved"

\* the checks on what the GET gave; "Saved" when all pass
Classify(r) ==
    IF r.kind = "exception" THEN "SkippedTransportError"
    ELSE IF r.status # 200 THEN "SkippedHTTPError"
    ELSE IF ~is_html_response(r) THEN "SkippedNonHTML"
    ELSE "Saved"

\* "Enqueue new links" that stops after the first link of the page
NewLinksFirstOnly(links, sn) ==
    SelectSeq(MapNormalize(IF links = <<>> THEN <<>> ELSE <<Head(links)>>),
              LAMBDA n : n \notin sn /\ same_domain(n, start_url)
                                     /\ ~looks_like_binary(n))

\* "Enqueue new links" without the "n not in seen" test
NewLinksNoSeen(links, sn) ==
    SelectSeq(MapNormalize(links),
              LAMBDA n : same_domain(n, start_url) /\ ~looks_like_binary(n))

\* "Enqueue new links": the URLs appended for the links of a saved page;
\* sn is the seen-set at that point
NewLinks(links, sn) ==
    SelectSeq(MapNormalize(links),
              LAMBDA n : n \notin sn /\ same_domain(n, start_url)
                                     /\ ~looks_like_binary(n))

\* a duplicate skipped with no sleep
SleepsButForDuplicates(outcome) ==
    IF outcome = "SkippedDuplicate" THEN <<>> ELSE <<Ev("sleep", NoUrl)>>

\* the sleeps of a pass that ends with the given outcome
Sleeps(outcome) == <<Ev("sleep", NoUrl)>>

\* a failed GET that escapes the loop
AfterPassRaising(outcome) ==
    IF outcome = "SkippedTransportError" THEN "crashed" ELSE "loop"

\* where the pass leaves the program: every branch continues the loop
AfterPass(outcome) == "loop"

\* a pop from the wrong end of the deque
pop(q) == [url |-> q[Len(q)], rest |-> SubSeq(q, 1, Len(q) - 1)]

\* queue.popleft(): the URL taken and the queue left
popleft(q) == [url |-> Head(q), rest |-> Tail(q)]

\* the loop condition, off by one
LoopCondOffByOne == queue # <<>> /\ count <= max_pages

\* the loop condition
LoopCond == queue # <<>> /\ count < max_pages

\* main() without the hard cap
CapPagesUncapped(n) == n

\* main(): the cap handed to crawl_peo
CapPages(n) == IF n < HardCap THEN n ELSE HardCap

-----------------------------------------------------------------------------
(* The program *)

RequestedCaps == (-1 .. MaxSmallCap) \cup {HardCap + 1}

StartUrls == {Root, Pdf, ListPage(1)}

NoPass == [url |-> NoUrl, resp |-> NoResponse, outcome |-> "none"]

\* no function is applied on its own during a crawl
NoArgs == [fn |-> "none", urls |-> <<>>, web |-> <<>>]

Init ==
    /\ pc = "main"
    /\ requested \in RequestedCaps
    /\ max_pages = requested
    /\ start_url \in StartUrls
    /\ use_sitemap \in BOOLEAN
    /\ robotsFetch = NoRobotsFetch
    /\ rp = NewRobotFileParser
    /\ queue = <<>>
    /\ seen = {}
    /\ count = 0
    /\ pages = {}
    /\ manifest = <<>>
    /\ last = NoPass
    /\ log = <<>>
    /\ args = NoArgs
    /\ rets = <<>>

\* main(): cap the requested pages, call crawl_peo
Main ==
    /\ pc = "main"
    /\ max_pages' = CapPages(max_pages)
    /\ pc' = "load_robots"
    /\ UNCHANGED <<requested, start_url, use_sitemap, robotsFetch, rp, queue,
                   seen, count, pages, manifest, last, log, args, rets>>

\* crawl_peo: rp = load_robots(start_url)
LoadRobots ==
    /\ pc = "load_robots"
    /\ \E o \in RobotsOutcomes :
          /\ robotsFetch' = o
          /\ rp' = load_robots(o)
    /\ log' = Append(log, Ev("robots", NoUrl))
    /\ pc' = "seed"
    /\ UNCHANGED <<requested, max_pages, start_url, use_sitemap, queue, seen,
                   count, pages, manifest, last, args, rets>>

\* crawl_peo: seed the queue from the sitemaps or the start URL; count = 0
Seed ==
    /\ pc = "seed"
    /\ \E web \in (IF use_sitemap THEN SitemapWebs ELSE {[s \in SitemapUrls |-> FailDoc]}) :
          LET s == SeedQueue(web) IN
          /\ queue' = s.queue
          /\ log' = log \o s.events
    /\ seen' = {}
    /\ count' = 0
    /\ pc' = "loop"
    /\ UNCHANGED <<requested, max_pages, start_url, use_sitemap, robotsFetch,
                   rp, pages, manifest, last, args, rets>>

\* one pass of "while queue and count < max_pages"
LoopPass ==
    /\ pc = "loop"
    /\ LoopCond
    /\ LET p   == popleft(queue)
           url == p.url
           g   == Gate(url)
       IN  IF g # "fetch"
           THEN /\ queue' = p.rest
                /\ seen' = IF g = "SkippedDuplicate" THEN seen ELSE seen \cup {url}
                /\ last' = [url |-> url, resp |-> NoResponse, outcome |-> g]
                /\ log' = log \o <<Ev("deq", url)>>
                              \o (IF g = "SkippedDuplicate" THEN <<>> ELSE <<Ev("mark", url)>>)
                              \o Sleeps(g)
                /\ pc' = AfterPass(g)
                /\ UNCHANGED <<count, pages, manifest>>
           ELSE \E r \in Responses(url) :
                LET c == Classify(r) IN
                IF c # "Saved"
                THEN /\ queue' = p.rest
                     /\ seen' = seen \cup {url}
                     /\ last' = [url |-> url, resp |-> r, outcome |-> c]
                     /\ log' = log \o <<Ev("deq", url), Ev("mark", url), Ev("get", url)>>
                                   \o Sleeps(c)
                     /\ pc' = AfterPass(c)
                     /\ UNCHANGED <<count, pages, manifest>>
                ELSE LET new == NewLinks(r.links, seen \cup {url}) IN
                     /\ queue' = p.rest \o new
                     /\ seen' = seen \cup {url}
                     /\ pages' = pages \cup {url}
                     /\ count' = count + 1
                     /\ manifest' = Append(manifest, url)
                     /\ last' = [url |-> url, resp |-> r, outcome |-> c]
                     /\ log' = log \o <<Ev("deq", url), Ev("mark", url), Ev("get", url),
                                        Ev("save", url)>>
                                   \o MapEnq(new) \o Sleeps(c)
                     /\ pc' = AfterPass(c)
    /\ UNCHANGED <<requested, max_pages, start_url, use_sitemap, robotsFetch, rp,
                   args, rets>>

\* the loop condition fails: print the summary and return
LoopExit ==
    /\ pc = "loop"
    /\ ~LoopCond
    /\ pc' = "done"
    /\ UNCHANGED <<requested, max_pages, start_url, use_sitemap, robotsFetch,
                   rp, queue, seen, count, pages, manifest, last, log, args, rets>>

Next == Main \/ LoadRobots \/ Seed \/ LoopPass \/ LoopExit

Spec == Init /\ [][Next]_vars

-----------------------------------------------------------------------------
(* Functions applied on their own, to inputs drawn from bounded sets *)

\* the sequences of at most n elements of S
RECURSIVE SeqsUpTo(_, _)
SeqsUpTo(S, n) ==
    IF n = 0 THEN {<<>>}
    ELSE LET shorter == SeqsUpTo(S, n - 1)
         IN  shorter \cup {Append(sq, x) : sq \in shorter, x \in S}

\* the paths urlparse can give a URL with a host: empty, or starting with "/"
PathInputs == {p \in SeqsUpTo({"/", "a"}, MaxPathLen) : p = <<>> \/ p[1] = "/"}

\* URLs given to normalize_url; NoUrl is the empty string
UrlInputs ==
    {NoUrl} \cup {U(n, p, q, f) : n \in {"peo.gov.au", "PEO.GOV.AU"},
                                  p \in PathInputs, q \in {0, 1}, f \in {"", "top"}}

\* the URLs that differ from u only by their fragment
FragmentVariants(u) ==
    {[u EXCEPT !.fragment = f] : f \in {"", "top", "end"} \ {u.fragment}}

\* the URL that is u with one more slash at the end of a non-root path
SlashVariants(u) ==
    IF u.path = <<>> THEN {} ELSE {[u EXCEPT !.path = Append(u.path, "/")]}

\* <loc>s of the child sitemaps
LeafUrls == {Root, PageA, PageASlash, PageB, Pdf, Ext}

\* a sitemap index at /sitemap.xml that references two child sitemaps
IndexWebs ==
    {[s \in SitemapUrls |->
        CASE s = SmDefault -> SitemapIndex(<<Sm1, Sm2>>)
          [] s = Sm1 -> UrlSet(l1)
          [] s = Sm2 -> UrlSet(l2)] :
     l1 \in SeqsUpTo(LeafUrls, MaxLeaves), l2 \in SeqsUpTo(LeafUrls, MaxLeaves)}

InitPure ==
    /\ pc = "apply"
    /\ requested = HardCap
    /\ max_pages = HardCap
    /\ start_url = Root
    /\ use_sitemap = TRUE
    /\ robotsFetch = NoRobotsFetch
    /\ rp = NewRobotFileParser
    /\ queue = <<>>
    /\ seen = {}
    /\ count = 0
    /\ pages = {}
    /\ manifest = <<>>
    /\ last = NoPass
    /\ log = <<>>
    /\ rets = <<>>
    /\ \/ \E u \in UrlInputs : args = [fn |-> "normalize_url", urls |-> <<u>>, web |-> <<>>]
       \/ \E u \in UrlInputs \ {NoUrl} :
             \E v \in FragmentVariants(u) \cup SlashVariants(u) :
                args = [fn |-> "normalize_url pair", urls |-> <<u, v>>, web |-> <<>>]
       \/ \E w \in IndexWebs : args = [fn |-> "seed", urls |-> <<>>, web |-> w]

crawlVars == <<pc, requested, max_pages, start_url, use_sitemap, robotsFetch, rp,
               queue, seen, count, pages, manifest, last, log>>

\* normalize_url(u), and normalize_url of that
NormalizeTwice ==
    /\ args.fn = "normalize_url" /\ rets = <<>>
    /\ rets' = <<normalize_url(args.urls[1]),
                 normalize_url(normalize_url(args.urls[1]))>>
    /\ UNCHANGED <<crawlVars, args>>

\* normalize_url(u1) and normalize_url(u2)
NormalizePair ==
    /\ args.fn = "normalize_url pair" /\ rets = <<>>
    /\ rets' = <<normalize_url(args.urls[1]), normalize_url(args.urls[2])>>
    /\ UNCHANGED <<crawlVars, args>>

\* the queue crawl_peo seeds from the sitemaps of the given site
SeedFromWeb ==
    /\ args.fn = "seed" /\ rets = <<>>
    /\ rets' = <<SeedQueue(args.web).queue>>
    /\ UNCHANGED <<crawlVars, args>>

NextPure == NormalizeTwice \/ NormalizePair \/ SeedFromWeb

PureSpec == InitPure /\ [][NextPure]_vars

-----------------------------------------------------------------------------
(* The crawl of one fixed site, sitemap seeding off *)

\* the pages of the site, by canonical URL
SitePages == {Root, PageA, PageB}

\* the <a href> lists of the site's HTML pages
SiteLinks ==
    {<<>>,
     <<PageA>>,
     <<PageASlash, PageAFrag>>,
     <<PageB, Ext>>,
     <<PageA, PageB>>,
     <<PageB, PageA>>,
     <<Pdf, Root>>}

\* what a page of the site answers, the same at every request
SiteResponses ==
    {Exc, Resp(404, HtmlType, <<PageA, PageB>>), Resp(200, PdfType, <<PageA, PageB>>)}
    \cup {Resp(200, HtmlType, ls) : ls \in SiteLinks}

Sites == [SitePages -> SiteResponses]

InitSite ==
    /\ pc = "main"
    /\ requested \in RequestedCaps
    /\ max_pages = requested
    /\ start_url = Root
    /\ use_sitemap = FALSE
    /\ robotsFetch = NoRobotsFetch
    /\ rp = NewRobotFileParser
    /\ queue = <<>>
    /\ seen = {}
    /\ count = 0
    /\ pages = {}
    /\ manifest = <<>>
    /\ last = NoPass
    /\ log = <<>>
    /\ rets = <<>>
    /\ \E site \in Sites : args = [fn |-> "site", urls |-> <<>>, web |-> site]

SiteSpec == InitSite /\ [][Next]_vars

\* the interpreter runs the one thread of the program on: a step that can be
\* taken is taken
FairSpec == Spec /\ WF_vars(Next)

-----------------------------------------------------------------------------
(* Properties *)

Range(sq) == {sq[i] : i \in DOMAIN sq}
Min(a, b) == IF a < b THEN a ELSE b

\* positions of the log holding event e
At(e) == {i \in DOMAIN log : log[i].ev = e}

\* the crawl loop is between passes, or over
BetweenPasses == pc \in {"loop", "done"}

\* C1 as stated: no URL is dequeued twice in one crawl run -- each canonical
\* URL is popped from the queue at most once.
C1_NoUrlDequeuedTwice ==
    \A i, j \in At("deq") : log[i].url = log[j].url => i = j

\* C1 as amended: a URL can be popped more than once, but it gets past the
\* already-seen check (is added to seen) at most once, and every later pop of
\* it does nothing but sleep.
C1_ProcessedAtMostOnce ==
    /\ \A i, j \in At("mark") : log[i].url = log[j].url => i = j
    /\ \A i, j \in At("deq") :
          (i < j /\ log[i].url = log[j].url) =>
              (j < Len(log) => log[j + 1].ev = "sleep")

\* a URL has been popped twice, and pages were saved
C1_Witness ==
    /\ \E i, j \in At("deq") : i < j /\ log[i].url = log[j].url
    /\ count > 0

\* C2 as stated: each canonical URL is appended to the frontier queue at most
\* once in a run, seeding and link discovery taken together.
C2_EnqueuedAtMostOnce ==
    \A i, j \in At("enq") : log[i].url = log[j].url => i = j

\* C2 as amended: a canonical URL can be appended more than once while it has
\* not been dequeued, but it is never appended again once it has been dequeued.
C2_NoEnqueueAfterDequeue ==
    \A i \in At("deq") : \A j \in At("enq") : log[i].url = log[j].url => j < i

\* link discovery has appended a URL that was appended before
C2_Witness ==
    \E i, j \in At("enq") :
        /\ i < j /\ log[i].url = log[j].url
        /\ \E k \in At("save") : k < j

\* C3: the number of saved pages (count, manifest records, page files) never
\* exceeds min(requested, 20) for a requested cap >= 0, and inside crawl_peo
\* never exceeds max_pages >= 0.
C3_CountWithinCap ==
    /\ Len(manifest) = count
    /\ Cardinality(pages) <= count
    /\ requested >= 0 => count <= Min(requested, 20)
    /\ (pc \notin {"main"} /\ max_pages >= 0) => count <= max_pages

\* a cap above 20 was requested, 20 pages are saved and URLs are left over
C3_Witness ==
    requested > 20 /\ count = 20 /\ queue # <<>> /\ pc = "done"

\* C4: when robots.txt was loaded and disallows a path prefix, no URL under
\* that prefix has a page file or a manifest record.
C4_DisallowedNeverSaved ==
    robotsFetch.kind = "ok" =>
        \A u \in pages \cup Range(manifest) :
            \A p \in robotsFetch.disallow : ~IsPrefix(p, u.path)

\* a URL under the disallowed prefix was dequeued and denied, in a run that
\* saves pages
C4_Witness ==
    /\ robotsFetch.kind = "ok"
    /\ last.outcome = "SkippedRobotsDenied"
    /\ \E p \in robotsFetch.disallow : IsPrefix(p, last.url.path)
    /\ count > 0

\* C5: when fetching or parsing robots.txt fails, the policy allows every
\* path: the crawl loop skips no URL as robots-denied.
C5_FailOpen ==
    robotsFetch.kind \in {"http", "urlerror", "baddecode"} =>
        last.outcome # "SkippedRobotsDenied"

\* C6: every dequeue, whatever its outcome, is followed by exactly one sleep
\* before the next dequeue or the end of the loop.
C6_OneSleepPerDequeue ==
    BetweenPasses =>
        \A i \in At("deq") :
            LET later == {j \in At("deq") : j > i}
                nxt   == IF later = {} THEN Len(log) + 1
                         ELSE CHOOSE j \in later : \A k \in later : j <= k
            IN  Cardinality({k \in At("sleep") : i < k /\ k < nxt}) = 1

\* a duplicate was just skipped, after a page was saved and a GET had failed
C6_Witness ==
    /\ last.outcome = "SkippedDuplicate"
    /\ count > 0
    /\ Cardinality(At("get")) > count

\* C7: between any two consecutive outbound requests of a run (robots.txt,
\* sitemaps, page GETs) at least one delay interval is slept.
C7_SleepBetweenRequests ==
    \A i, j \in DOMAIN log :
        (i < j /\ IsRequest(log[i]) /\ IsRequest(log[j])) =>
            \E k \in At("sleep") : i < k /\ k < j

\* C8: the crawl loop terminates, and at exit the frontier is empty or the
\* saved-page count equals the cap (for a cap >= 0).
C8_LoopTerminates ==
    /\ <>(pc = "done")
    /\ []((pc = "done" /\ max_pages >= 0) => (queue = <<>> \/ count = max_pages))

\* the loop has ended on the cap with URLs left in the frontier
C8_Witness ==
    pc = "done" /\ queue # <<>> /\ count = max_pages /\ max_pages > 0

\* C9: a response that is not 200, or whose Content-Type names neither
\* text/html nor application/xhtml+xml, only pops the URL: no page file, no
\* manifest record, no link enqueued, the count unchanged.
C9_SkipChangesNothingElse ==
    [][ (/\ pc = "loop"
         /\ last'.resp.kind = "response"
         /\ Len(log') > Len(log)
         /\ \/ last'.resp.status # 200
            \/ \A i \in DOMAIN last'.resp.ctype :
                  last'.resp.ctype[i] \notin
                      {"text/html", "TEXT/HTML", "application/xhtml+xml"})
        => /\ pages' = pages
           /\ manifest' = manifest
           /\ count' = count
           /\ queue' = Tail(queue)
           /\ last'.outcome \in {"SkippedHTTPError", "SkippedNonHTML"}
           /\ \A k \in (Len(log) + 1)..Len(log') : log'[k].ev \notin {"save", "enq"}
      ]_vars

\* a 404 whose body carries links was just skipped, in a run that saved a page
C9_Witness ==
    /\ last.outcome = "SkippedHTTPError"
    /\ last.resp.links # <<>>
    /\ count = 1

\* C10: a failed page GET does not abort the crawl: the pass only pops the
\* URL and the loop goes on; the run reaches its end, and unless the cap was
\* reached every URL that was put in the frontier has been dequeued.
C10_FailureDoesNotAbort ==
    /\ [][ (pc = "loop" /\ Len(log') > Len(log)
                        /\ last'.resp.kind = "exception")
           => (pc' = "loop" /\ queue' = Tail(queue)) ]_vars
    /\ <>(pc = "done")
    /\ []((pc = "done" /\ count < max_pages) =>
            \A i \in At("enq") :
                Cardinality({j \in At("enq") : log[j].url = log[i].url})
                    = Cardinality({j \in At("deq") : log[j].url = log[i].url}))

\* a GET has just failed and the loop has URLs left and budget to go on
C10_Witness ==
    /\ last.outcome = "SkippedTransportError"
    /\ pc = "loop"
    /\ queue # <<>>
    /\ count < max_pages

\* C11: normalize_url is idempotent: for every URL u,
\* normalize_url(normalize_url(u)) = normalize_url(u).
C11_NormalizeIdempotent ==
    (args.fn = "normalize_url" /\ rets # <<>>) => rets[2] = rets[1]

\* C12: URLs that differ only by their fragment, or by a single trailing slash
\* on a non-root path, have the same normalize_url.
C12_VariantsNormalizeEqual ==
    (args.fn = "normalize_url pair" /\ rets # <<>>) => rets[1] = rets[2]

\* the <loc>s of the two children of the index
C13_Leaves == args.web[Sm1].locs \o args.web[Sm2].locs

\* both children list URLs, all on the start URL's host, none with an excluded
\* extension, no two with the same canonical form
C13_DistinctInScope ==
    /\ args.web[Sm1].locs # <<>>
    /\ args.web[Sm2].locs # <<>>
    /\ \A i \in DOMAIN C13_Leaves :
          /\ C13_Leaves[i].netloc \in {"peo.gov.au", "PEO.GOV.AU"}
          /\ C13_Leaves[i] # Pdf
    /\ \A i, j \in DOMAIN C13_Leaves :
          (i # j) => (C13_Leaves[i] # C13_Leaves[j]
                      /\ {C13_Leaves[i], C13_Leaves[j]} # {PageA, PageASlash})

\* C13: a sitemap index that references two child sitemaps, each listing
\* distinct in-scope page URLs, seeds the frontier with exactly the (canonical)
\* leaf URLs of both children, each once.
C13_IndexSeedsUnion ==
    (args.fn = "seed" /\ rets # <<>> /\ C13_DistinctInScope) =>
        /\ Len(rets[1]) = Len(C13_Leaves)
        /\ \A i \in DOMAIN C13_Leaves :
              LET canon == IF C13_Leaves[i] = PageASlash THEN PageA ELSE C13_Leaves[i]
              IN  Cardinality({k \in DOMAIN rets[1] : rets[1][k] = canon}) = 1

\* the index was resolved with two leaf URLs in its second child
C13_Witness ==
    /\ args.fn = "seed" /\ rets # <<>> /\ C13_DistinctInScope
    /\ Len(args.web[Sm2].locs) = 2

\* a page of the fixed site is acceptable: on the start URL's host, no
\* excluded extension, answered 200 with an HTML content type
C14_Acceptable(u) ==
    /\ u \in SitePages
    /\ args.web[u].kind = "response"
    /\ args.web[u].status = 200
    /\ args.web[u].ctype # <<>>
    /\ args.web[u].ctype[1] \in {"text/html", "application/xhtml+xml"}

\* the canonical URL of a link target of the site, NoUrl when the target is
\* off the host or has an excluded extension
C14_Target(l) ==
    CASE l \in {PageA, PageASlash, PageAFrag} -> PageA
      [] l = PageB -> PageB
      [] l \in {Root, RootBare} -> Root
      [] OTHER -> NoUrl

\* the URLs reachable from S through links on acceptable pages
RECURSIVE C14_Closure(_)
C14_Closure(S) ==
    LET step == {t \in SitePages :
                   \/ t \in S
                   \/ \E u \in S : /\ C14_Acceptable(u)
                                   /\ \E i \in DOMAIN args.web[u].links :
                                         C14_Target(args.web[u].links[i]) = t}
    IN  IF step = S THEN S ELSE C14_Closure(step)

\* the number of acceptable pages reachable from the start URL
C14_Reachable == Cardinality({u \in C14_Closure({Root}) : C14_Acceptable(u)})

\* robots.txt allows every path: no rule was read and the parser allows all,
\* or a body was read that disallows nothing
C14_RobotsAllowAll ==
    \/ rp.allow_all /\ ~rp.disallow_all
    \/ rp.last_checked /\ ~rp.disallow_all /\ rp.disallow = {}

\* C14: with sitemap seeding off and robots allowing everything, the run ends
\* with min(cap, number of acceptable pages reachable from the start URL
\* through links on accepted pages) manifest records.
C14_ManifestCount ==
    (pc = "done" /\ args.fn = "site" /\ ~use_sitemap /\ C14_RobotsAllowAll
                 /\ max_pages >= 0) =>
        Len(manifest) = Min(max_pages, C14_Reachable)

\* cap 2 on a site with three reachable acceptable pages wrote two records
C14_Witness ==
    /\ pc = "done" /\ args.fn = "site" /\ ~use_sitemap /\ C14_RobotsAllowAll
    /\ max_pages = 2
    /\ C14_Reachable = 3
    /\ Len(manifest) = 2

\* the first check the URL at the head of the queue fails, "" if none
C15_FirstFailing ==
    LET url == Head(queue) IN
    CASE url \in seen -> "SkippedDuplicate"
      [] url \notin seen /\ ~same_domain(url, start_url) -> "SkippedOutOfScope"
      [] url \notin seen /\ same_domain(url, start_url) /\ ~can_fetch(rp, url) ->
             "SkippedRobotsDenied"
      [] url \notin seen /\ same_domain(url, start_url) /\ can_fetch(rp, url)
                         /\ looks_like_binary(url) -> "SkippedBinary"
      [] OTHER -> ""

\* C15: the checks on a dequeued URL run in the order already-seen, same-host,
\* robots, excluded-extension and the first that fails ends the pass; a page
\* GET is issued only when all four pass, so every saved page and manifest
\* record is for such a URL.
C15_ChecksInOrder ==
    [][(pc = "loop" /\ log' # log) =>
          LET url  == Head(queue)
              added == SubSeq(log', Len(log) + 1, Len(log'))
              got  == \E i \in DOMAIN added : added[i] = Ev("get", url)
          IN  /\ last'.url = url
              /\ (C15_FirstFailing # "") => (last'.outcome = C15_FirstFailing /\ ~got
                                             /\ pages' = pages /\ manifest' = manifest)
              /\ (C15_FirstFailing = "") => got
              /\ \A i \in DOMAIN added : added[i].ev = "get" => added[i].url = url]_vars

\* a URL that fails both the robots check and the extension check was
\* stopped by the robots check, which comes first
C15_Witness ==
    /\ last.outcome = "SkippedRobotsDenied"
    /\ looks_like_binary(last.url)
    /\ last.url \in seen

\* the URLs of the events of one kind, in the order of the log
C16_Urls(e) ==
    LET evs == SelectSeq(log, LAMBDA x : x.ev = e)
    IN  [i \in DOMAIN evs |-> evs[i].url]

\* C16: the frontier is first-in first-out: the URLs are dequeued in exactly
\* the order they were enqueued (what was enqueued is what was dequeued so
\* far followed by what the queue holds), and each page GET is for the URL
\* just dequeued, so the GETs follow the order of discovery.
C16_Fifo ==
    /\ C16_Urls("enq") = C16_Urls("deq") \o queue
    /\ \A i \in DOMAIN log :
          (log[i].ev = "get") => (i > 2 /\ log[i - 2] = Ev("deq", log[i].url))

\* three URLs were dequeued, not all the same, while others wait in the queue
C16_Witness ==
    /\ Len(C16_Urls("deq")) >= 3
    /\ C16_Urls("deq")[2] # C16_Urls("deq")[3]
    /\ Len(queue) >= 2
    /\ queue[1] # queue[2]
    /\ ~use_sitemap

\* the most <loc>s a sitemap index of the model carries
C17_Fanout ==
    LET docs == {w[u] : w \in SitemapWebs, u \in SitemapUrls}
        lens == {Len(d.locs) : d \in {x \in docs : x.kind = "sitemapindex"}}
    IN  CHOOSE m \in lens : \A k \in lens : k <= m

\* the sitemap requests of a call tree of the given depth and fanout
RECURSIVE C17_CallTree(_)
C17_CallTree(depth) ==
    IF depth = 0 THEN 0 ELSE 1 + C17_Fanout * C17_CallTree(depth - 1)

\* the sitemap requests made so far
C17_SitemapRequests == Cardinality({i \in DOMAIN log : log[i].ev = "sitemap"})

\* the sitemaps resolution starts from: those of robots.txt, else /sitemap.xml
C17_Declared == IF rp.sitemaps = <<>> THEN 1 ELSE Len(rp.sitemaps)

C18_NoRepeat(e) ==
    Cardinality({log[i].url : i \in At(e)}) = Cardinality(At(e))

\* C18: the loop issues at most one page GET per canonical URL, whatever the
\* first GET came to, and no URL gets a second page file or manifest record.
C18_OneGetPerUrl ==
    /\ C18_NoRepeat("get")
    /\ C18_NoRepeat("save")
    /\ Cardinality(Range(manifest)) = Len(manifest)
    /\ Cardinality(pages) = Len(manifest)

\* a URL whose GET did not lead to a saved page came out of the queue again
\* and was not requested again
C18_Witness ==
    \E i \in At("get") :
       /\ log[i].url \notin pages
       /\ \E j \in At("deq") : j > i /\ log[j].url = log[i].url
       /\ Cardinality({k \in At("get") : log[k].url = log[i].url}) = 1

\* C19: the frontier is never empty when the crawl loop starts: when the
\* sitemaps have put no URL in the queue, the normalized start URL is there.
C19_FrontierNotEmptyAtStart ==
    (pc = "loop" /\ At("deq") = {}) => queue # <<>>

=============================================================================
